---- MODULE Spec2Model ----
(***************************************************************************)
(* Model of the procedural pipe growth engine of XPipe (src/src/world.rs). *)
(*                                                                         *)
(* The World is the state; add_pipe and add_debug_pipe are the actions.    *)
(* Random draws (rand::random, random_range, choose) are nondeterministic  *)
(* choices.  The grid bounds and the two probabilities are fields of World *)
(* set by World::new from constants (30 x 30 x 30, 0.3, 0.0); the model    *)
(* draws them from small sets so that the grid's edges and the saturation  *)
(* of the spawn region are reached within a few steps.                     *)
(*                                                                         *)
(* Numbers: a u32 is represented by the 32-bit two's complement integer of *)
(* the same bit pattern (u32::MAX is -1), compared with the unsigned order *)
(* U32Gt.  A probability and a draw of rand::random::<f32>() in [0,1) are  *)
(* counted in tenths.  An f32 is a pair <<m, e>> standing for m * 2^e.     *)
(* A quaternion is <<s, x, y, z>> in exact arithmetic: every angle of the  *)
(* program is a multiple of 90 degrees, so each component is a number      *)
(* (a + b * sqrt 2) / 2, written <<a, b>>.                                 *)
(***************************************************************************)
EXTENDS Integers, Sequences, FiniteSets, TLC

VARIABLES
    max_x_block, max_y_block, max_z_block,   \* world.rs:80-82
    turn_probability, stop_probability,      \* world.rs:84-85
    i_pipe_instances, l_pipe_instances,      \* world.rs:87-88
    occupied_blocks,                         \* world.rs:90
    last_block,                              \* world.rs:91
    status,      \* "running", or how the last call ended the program
    calls,       \* history: number of calls begun
    trace,       \* history: one record per placed segment, in order
    last_call    \* history: the branch the most recent call took

vars == <<max_x_block, max_y_block, max_z_block, turn_probability,
          stop_probability, i_pipe_instances, l_pipe_instances,
          occupied_blocks, last_block, status, calls, trace, last_call>>

config == <<max_x_block, max_y_block, max_z_block, turn_probability,
            stop_probability>>

--------------------------------------------------------------------------
(* Bounds of the model *)

MaxCalls == 4       \* calls explored per behaviour of Spec
MaxDebugSteps == 3  \* calls explored per behaviour of SpecDebug
NumColors == 2      \* palette entries explored (COLOR has 11)
MaxDebugCalls == 1  \* add_debug_pipe calls explored per behaviour

--------------------------------------------------------------------------
(* Program constants *)

TURN_PROBABILITY == 3   \* 0.3, in tenths
STOP_PROBABILITY == 0   \* 0.0, in tenths

\* COLOR: the palette, by index (bounded to its first NumColors entries).
COLOR == 1..NumColors

\* The draws of rand::random::<f32>(), uniform in [0,1), in tenths: one
\* draw of each interval that the thresholds 0.0, 0.3 and 0.5 cut [0,1) into.
Draws == {0, 4, 9}

\* The grids explored, as <<max_x_block, max_y_block, max_z_block>>.
Worlds == { <<1, 1, 1>>, <<2, 2, 2>>, <<4, 3, 2>> }

\* The stop probabilities explored, in tenths.
StopProbabilities == {STOP_PROBABILITY, 5}

ALL_DIRECTIONS == {"X", "Y", "Z", "_X", "_Y", "_Z"}
PERPENDICULAR_X == {"Y", "_Y", "Z", "_Z"}
PERPENDICULAR_Y == {"X", "_X", "Z", "_Z"}
PERPENDICULAR_Z == {"Y", "_Y", "X", "_X"}

PipeType == {"I", "L"}

None == [tag |-> "None"]
Some(b) == [tag |-> "Some", value |-> b]

--------------------------------------------------------------------------
(* u32 and f32 *)

\* a > b on u32 (unsigned order of the two's complement representation)
U32Gt(a, b) ==
    IF (a >= 0) = (b >= 0) THEN a > b ELSE a < 0

\* q * 2^k + r rounded to a multiple of 2^k, ties to even, as <<m, e>>
RoundF32(q, r, k) ==
    LET half == 2 ^ (k - 1)
        up == IF r > half \/ (r = half /\ q % 2 = 1) THEN q + 1 ELSE q
    IN IF up = 16777216 THEN <<8388608, k + 1>> ELSE <<up, k>>

\* n as f32: exact below 2^24, the range of the positions explored; above
\* it the value is rounded to a 24-bit significand.  A negative n stands for
\* the u32 2^32 + n, which lies in [2^31, 2^32) and has an ulp of 2^8.
as_f32(n) ==
    IF n < 0 THEN RoundF32(16777216 + (n \div 256), n % 256, 8)
    ELSE IF n < 16777216 THEN <<n, 0>>
    ELSE LET k == CHOOSE j \in 1..7 : (n \div (2 ^ j)) \in 8388608..16777215
         IN RoundF32(n \div (2 ^ k), n % (2 ^ k), k)

--------------------------------------------------------------------------
(* Quaternions of cgmath, over the numbers <<a, b>> = (a + b * sqrt 2) / 2 *)

NZero == <<0, 0>>
NOne == <<2, 0>>
NAdd(p, q) == <<p[1] + q[1], p[2] + q[2]>>
NSub(p, q) == <<p[1] - q[1], p[2] - q[2]>>
NMul(p, q) == <<(p[1] * q[1] + 2 * p[2] * q[2]) \div 2,
                (p[1] * q[2] + p[2] * q[1]) \div 2>>

\* cos and sin of half the angle deg, for the angles the program uses
CosHalf(deg) ==
    CASE deg = 0 -> NOne
      [] deg \in {90, -90} -> <<0, 1>>
      [] deg = 180 -> NZero
SinHalf(deg) ==
    CASE deg = 0 -> NZero
      [] deg = 90 -> <<0, 1>>
      [] deg = -90 -> <<0, -1>>
      [] deg = 180 -> NOne

\* Quaternion::from_axis_angle(Vector3::unit_<axis>(), Deg(deg))
from_axis_angle(axis, deg) ==
    LET c == CosHalf(deg)
        n == SinHalf(deg)
    IN CASE axis = "x" -> <<c, n, NZero, NZero>>
         [] axis = "y" -> <<c, NZero, n, NZero>>
         [] axis = "z" -> <<c, NZero, NZero, n>>

\* Quaternion * Quaternion (the Hamilton product)
quaternion_mul(p, q) ==
    << NSub(NSub(NSub(NMul(p[1], q[1]), NMul(p[2], q[2])), NMul(p[3], q[3])),
            NMul(p[4], q[4])),
       NSub(NAdd(NAdd(NMul(p[1], q[2]), NMul(p[2], q[1])), NMul(p[3], q[4])),
            NMul(p[4], q[3])),
       NAdd(NAdd(NSub(NMul(p[1], q[3]), NMul(p[2], q[4])), NMul(p[3], q[1])),
            NMul(p[4], q[2])),
       NAdd(NSub(NAdd(NMul(p[1], q[4]), NMul(p[2], q[3])), NMul(p[3], q[2])),
            NMul(p[4], q[1])) >>

\* The axis-angle factors the resolvers use, alone or in a product of two
AxisAngles == {"x", "y", "z"} \X {0, 90, 180, -90}
Factors == { <<a>> : a \in AxisAngles } \cup (AxisAngles \X AxisAngles)

\* The quaternion of every rotation written as one or two axis-angle factors
Quaternions ==
    [factors \in Factors |->
        IF Len(factors) = 1
        THEN from_axis_angle(factors[1][1], factors[1][2])
        ELSE quaternion_mul(from_axis_angle(factors[1][1], factors[1][2]),
                            from_axis_angle(factors[2][1], factors[2][2]))]

\* The quaternion of a rotation written as one or two axis-angle factors
Compose(factors) == Quaternions[factors]

--------------------------------------------------------------------------
(* Outcomes of a function that may return, panic or never return *)

Ok(b, k) == [tag |-> "Ok", block |-> b, kind |-> k]
Panic(msg, k) == [tag |-> "Panic", msg |-> msg, kind |-> k]
Diverge(k) == [tag |-> "Diverge", kind |-> k]

--------------------------------------------------------------------------
(* Direction *)

\* Direction::random: the directions it may return
Direction_random == ALL_DIRECTIONS

\* Mutant: any direction but the current one (the opposite included)
random_perpendicular_any_other(self) == ALL_DIRECTIONS \ {self}

\* Direction::random_perpendicular: the directions it may return
random_perpendicular(self) ==
    CASE self \in {"X", "_X"} -> PERPENDICULAR_X
      [] self \in {"Y", "_Y"} -> PERPENDICULAR_Y
      [] self \in {"Z", "_Z"} -> PERPENDICULAR_Z

\* random_color: the colors it may return
random_color == COLOR

--------------------------------------------------------------------------
(* World *)

\* Mutant: the whole axis is sampled
SpawnRange_full(max) == 0..(max - 1)

\* The ranges random_block samples: 0..max/2 (exclusive) on each axis.
SpawnRange(max) == 0..((max \div 2) - 1)

SpawnRegion ==
    { <<x, y, z>> : x \in SpawnRange(max_x_block),
                    y \in SpawnRange(max_y_block),
                    z \in SpawnRange(max_z_block) }

\* Mutant: the occupancy test dropped
is_position_valid_ignores_occupancy(position) ==
    IF \/ U32Gt(position[1], max_x_block)
       \/ U32Gt(position[2], max_y_block)
       \/ U32Gt(position[3], max_z_block)
    THEN FALSE
    ELSE TRUE

\* World::is_position_valid
is_position_valid(position) ==
    IF \/ U32Gt(position[1], max_x_block)
       \/ U32Gt(position[2], max_y_block)
       \/ U32Gt(position[3], max_z_block)
       \/ position \in occupied_blocks
    THEN FALSE
    ELSE TRUE

\* Mutant: the fresh start is an Elbow
random_block_elbow(k) ==
    IF SpawnRegion = {}
    THEN {Panic("cannot sample empty range", k)}
    ELSE IF SpawnRegion \subseteq occupied_blocks
    THEN {Diverge(k)}
    ELSE { Ok([pipe_type |-> "L", direction |-> d, color |-> c,
               position |-> p], k) :
             p \in SpawnRegion \ occupied_blocks,
             d \in Direction_random,
             c \in random_color }

\* Mutant: the first sample is taken, occupied or not
random_block_any_cell(k) ==
    IF SpawnRegion = {}
    THEN {Panic("cannot sample empty range", k)}
    ELSE { Ok([pipe_type |-> "I", direction |-> d, color |-> c,
               position |-> p], k) :
             p \in SpawnRegion, d \in Direction_random, c \in random_color }

\* World::random_block: its outcomes, labelled with the step kind k.
\* random_range panics on an empty range; the loop `loop { sample; if
\* !occupied { break } }` has no exit when every cell it can sample is
\* occupied, and otherwise ends (with probability 1) on any free cell.
random_block(k) ==
    IF SpawnRegion = {}
    THEN {Panic("cannot sample empty range", k)}
    ELSE IF SpawnRegion \subseteq occupied_blocks
    THEN {Diverge(k)}
    ELSE { Ok([pipe_type |-> "I", direction |-> d, color |-> c,
               position |-> p], k) :
             p \in SpawnRegion \ occupied_blocks,
             d \in Direction_random,
             c \in random_color }

\* The candidate position of next_block: last_block.position moved one unit
\* along last_block.direction, in u32 arithmetic.  `wrapped` is the result
\* of a build without overflow checks; `overflow` is when a build with
\* overflow checks panics instead.
Candidate(last) ==
    LET p == last.position
        axis == CASE last.direction \in {"X", "_X"} -> 1
                  [] last.direction \in {"Y", "_Y"} -> 2
                  [] last.direction \in {"Z", "_Z"} -> 3
        positive == last.direction \in {"X", "Y", "Z"}
        overflow == IF positive THEN p[axis] = -1 ELSE p[axis] = 0
        moved == IF positive
                 THEN (IF p[axis] = 2147483647 THEN -2147483647 - 1 ELSE p[axis] + 1)
                 ELSE (IF p[axis] = -2147483647 - 1 THEN 2147483647 ELSE p[axis] - 1)
    IN [overflow |-> overflow, wrapped |-> [p EXCEPT ![axis] = moved]]

\* Mutant: the elbow takes a color of its own
turn_block_recolored(last, position) ==
    { Ok([color |-> c, position |-> position, direction |-> d,
          pipe_type |-> "L"], "Turn") :
        d \in random_perpendicular(last.direction), c \in random_color }

\* Mutant: the elbow is placed one unit further, along its new direction
turn_block_past_corner(last, position) ==
    { Ok([color |-> last.color,
          position |-> Candidate([position |-> position,
                                  direction |-> d]).wrapped,
          direction |-> d, pipe_type |-> "L"], "Turn") :
        d \in random_perpendicular(last.direction) }

\* The Turn arm of next_block: the blocks it may return
turn_block(last, position) ==
    { Ok([color |-> last.color, position |-> position, direction |-> d,
          pipe_type |-> "L"], "Turn") :
        d \in random_perpendicular(last.direction) }

\* Mutant: the straight segment takes a direction of its own
continue_block_redirected(last, position) ==
    { Ok([color |-> last.color, position |-> position, direction |-> d,
          pipe_type |-> "I"], "Continue") : d \in Direction_random }

\* The Continue arm of next_block: the block it returns
continue_block(last, position) ==
    { Ok([color |-> last.color, position |-> position,
          direction |-> last.direction, pipe_type |-> "I"], "Continue") }

\* World::next_block: its outcomes
next_block ==
    LET last == last_block.value
        cand == Candidate(last)
        position == cand.wrapped
        rest ==
            IF ~is_position_valid(position)
            THEN random_block("BlockedRestart")
            ELSE UNION { IF draw < turn_probability
                         THEN turn_block(last, position)
                         ELSE continue_block(last, position)
                       : draw \in Draws }
    IN IF cand.overflow
       THEN {Panic("attempt to add or subtract with overflow", "Overflow")} \cup rest
       ELSE rest

\* Mutant: the negative directions are turned the other way
IRotation_signed(direction) ==
    CASE direction = "Y" -> << <<"y", 0>> >>
      [] direction = "_Y" -> << <<"x", 180>> >>
      [] direction = "X" -> << <<"z", -90>> >>
      [] direction = "_X" -> << <<"z", 90>> >>
      [] direction = "Z" -> << <<"x", 90>> >>
      [] direction = "_Z" -> << <<"x", -90>> >>

\* The match on block.direction of i_instance_at_block: axis and angle
IRotation(direction) ==
    CASE direction \in {"Y", "_Y"} -> << <<"y", 0>> >>
      [] direction \in {"X", "_X"} -> << <<"z", -90>> >>
      [] direction \in {"Z", "_Z"} -> << <<"x", 90>> >>

\* Mutant: every Straight instance keeps the orientation of the model
i_instance_at_block_upright(block) ==
    LET p == block.position
        position == <<as_f32(p[1]), as_f32(p[2]), as_f32(p[3])>>
    IN [tag |-> "Ok",
        instance |-> [position |-> position,
                      rotation |-> from_axis_angle("y", 0),
                      color |-> block.color]]

\* Mutant: the rotation follows the direction of last_block, when there is
\* one, instead of the direction of the block
i_instance_at_block_from_last(block) ==
    LET p == block.position
        position == <<as_f32(p[1]), as_f32(p[2]), as_f32(p[3])>>
        direction == IF last_block = None THEN block.direction
                     ELSE last_block.value.direction
    IN [tag |-> "Ok",
        instance |-> [position |-> position,
                      rotation |-> Compose(IRotation(direction)),
                      color |-> block.color]]

\* World::i_instance_at_block
i_instance_at_block(block) ==
    LET p == block.position
        position == <<as_f32(p[1]), as_f32(p[2]), as_f32(p[3])>>
        rotation == Compose(IRotation(block.direction))
    IN [tag |-> "Ok",
        instance |-> [position |-> position, rotation |-> rotation,
                      color |-> block.color]]

\* Mutant: the `_` arms return an angle of 0 instead of panicking
LAngle_defaulting(direction, last_block_dir) ==
    CASE direction \in {"X", "_X"} ->
            (CASE last_block_dir = "_Z" -> {90}
               [] last_block_dir = "Y" -> {180}
               [] last_block_dir = "Z" -> {-90}
               [] OTHER -> {0})
      [] direction \in {"Y", "_Y"} ->
            (CASE last_block_dir = "_Z" -> {-90}
               [] last_block_dir = "X" -> {180}
               [] last_block_dir = "Z" -> {90}
               [] OTHER -> {0})
      [] direction \in {"Z", "_Z"} ->
            (CASE last_block_dir = "_Y" -> {90}
               [] last_block_dir = "X" -> {180}
               [] last_block_dir = "Y" -> {-90}
               [] OTHER -> {0})

\* Mutant: in the table of Z and _Z the arm of Y repeats the angle of _Y
LAngle_repeated(direction, last_block_dir) ==
    CASE direction \in {"X", "_X"} ->
            (CASE last_block_dir = "_Y" -> {0}
               [] last_block_dir = "_Z" -> {90}
               [] last_block_dir = "Y" -> {180}
               [] last_block_dir = "Z" -> {-90}
               [] OTHER -> {})
      [] direction \in {"Y", "_Y"} ->
            (CASE last_block_dir = "_X" -> {0}
               [] last_block_dir = "_Z" -> {-90}
               [] last_block_dir = "X" -> {180}
               [] last_block_dir = "Z" -> {90}
               [] OTHER -> {})
      [] direction \in {"Z", "_Z"} ->
            (CASE last_block_dir = "_X" -> {0}
               [] last_block_dir = "_Y" -> {90}
               [] last_block_dir = "X" -> {180}
               [] last_block_dir = "Y" -> {90}
               [] OTHER -> {})

\* The angle tables of l_instance_at_block: the angle of the arm matching
\* last_block_dir, or no angle for the `_ => panic!("Invalid direction")` arm.
LAngle(direction, last_block_dir) ==
    CASE direction \in {"X", "_X"} ->
            (CASE last_block_dir = "_Y" -> {0}
               [] last_block_dir = "_Z" -> {90}
               [] last_block_dir = "Y" -> {180}
               [] last_block_dir = "Z" -> {-90}
               [] OTHER -> {})
      [] direction \in {"Y", "_Y"} ->
            (CASE last_block_dir = "_X" -> {0}
               [] last_block_dir = "_Z" -> {-90}
               [] last_block_dir = "X" -> {180}
               [] last_block_dir = "Z" -> {90}
               [] OTHER -> {})
      [] direction \in {"Z", "_Z"} ->
            (CASE last_block_dir = "_X" -> {0}
               [] last_block_dir = "_Y" -> {90}
               [] last_block_dir = "X" -> {180}
               [] last_block_dir = "Y" -> {-90}
               [] OTHER -> {})

\* The match on block.direction of l_instance_at_block: the axis-angle
\* factors of the rotation, or none when the inner match panics
LRotation(direction, last_block_dir) ==
    { CASE direction = "X" -> << <<"x", deg>> >>
        [] direction = "_X" -> << <<"x", deg>>, <<"z", 90>> >>
        [] direction = "Y" -> << <<"y", deg>> >>
        [] direction = "_Y" -> << <<"y", deg>>, <<"x", 180>> >>
        [] direction = "Z" -> << <<"z", deg>>, <<"x", 90>> >>
        [] direction = "_Z" -> << <<"z", deg>>, <<"x", -90>> >>
      : deg \in LAngle(direction, last_block_dir) }

\* Mutant: without a last_block the elbow is resolved by its own direction
l_instance_at_block_lenient(block) ==
    LET last_block_dir == IF last_block = None THEN block.direction
                          ELSE last_block.value.direction
        p == block.position
        position == <<as_f32(p[1]), as_f32(p[2]), as_f32(p[3])>>
        rotations == IF last_block = None
                     THEN { << <<"y", 0>> >> }
                     ELSE LRotation(block.direction, last_block_dir)
    IN IF rotations = {}
       THEN [tag |-> "Panic", msg |-> "Invalid direction"]
       ELSE [tag |-> "Ok",
             instance |-> [position |-> position,
                           rotation |-> Compose(CHOOSE f \in rotations : TRUE),
                           color |-> block.color]]

\* Mutant: the incoming and the outgoing direction change places
l_instance_at_block_swapped(block) ==
    IF last_block = None
    THEN [tag |-> "Panic", msg |-> "called Option::unwrap() on a None value"]
    ELSE
    LET last_block_dir == last_block.value.direction
        p == block.position
        position == <<as_f32(p[1]), as_f32(p[2]), as_f32(p[3])>>
        rotations == LRotation(last_block_dir, block.direction)
    IN IF rotations = {}
       THEN [tag |-> "Panic", msg |-> "Invalid direction"]
       ELSE [tag |-> "Ok",
             instance |-> [position |-> position,
                           rotation |-> Compose(CHOOSE f \in rotations : TRUE),
                           color |-> block.color]]

\* World::l_instance_at_block
l_instance_at_block(block) ==
    IF last_block = None
    THEN [tag |-> "Panic", msg |-> "called Option::unwrap() on a None value"]
    ELSE
    LET last_block_dir == last_block.value.direction
        p == block.position
        position == <<as_f32(p[1]), as_f32(p[2]), as_f32(p[3])>>
        rotations == LRotation(block.direction, last_block_dir)
    IN IF rotations = {}
       THEN [tag |-> "Panic", msg |-> "Invalid direction"]
       ELSE [tag |-> "Ok",
             instance |-> [position |-> position,
                           rotation |-> Compose(CHOOSE f \in rotations : TRUE),
                           color |-> block.color]]

\* The match on block.pipe_type of add_pipe and add_debug_pipe
instance_at_block(block) ==
    IF block.pipe_type = "I"
    THEN i_instance_at_block(block)
    ELSE l_instance_at_block(block)

\* Mutant: the arms of the match push on each other's stream
push_instance_swapped(stream, t, block, instance) ==
    IF block.pipe_type # t THEN Append(stream, instance) ELSE stream

\* Mutant: the instance is inserted at the front of its stream
push_instance_front(stream, t, block, instance) ==
    IF block.pipe_type = t THEN <<instance>> \o stream ELSE stream

\* `self.<t>_pipe_instances.push(instance)` in the arm of block.pipe_type:
\* the stream of pipe type t after the match
push_instance(stream, t, block, instance) ==
    IF block.pipe_type = t THEN Append(stream, instance) ELSE stream

\* Mutant: the position is not recorded
insert_position_dropped(occupied, position) == occupied

\* Mutant: the set is replaced by the position
insert_position_replacing(occupied, position) == {position}

\* `self.occupied_blocks.insert(block.position)`
insert_position(occupied, position) == occupied \cup {position}

\* The tail shared by add_pipe and add_debug_pipe once the block is known:
\* resolve the instance, push it on the stream of its pipe type, insert the
\* position, store the block.  A panic or a loop without exit ends the
\* program with the World as it was.
Place(op, o, stop_draw) ==
    LET r == IF o.tag = "Ok" THEN instance_at_block(o.block) ELSE o
        placed == o.tag = "Ok" /\ r.tag = "Ok"
    IN /\ calls' = calls + 1
       /\ last_call' = [op |-> op, kind |-> o.kind, stop_draw |-> stop_draw,
                        prev |-> last_block, occupied |-> occupied_blocks,
                        block |-> IF o.tag = "Ok" THEN Some(o.block) ELSE None,
                        placed |-> placed]
       /\ UNCHANGED config
       /\ IF placed
          THEN /\ i_pipe_instances' =
                     push_instance(i_pipe_instances, "I", o.block, r.instance)
               /\ l_pipe_instances' =
                     push_instance(l_pipe_instances, "L", o.block, r.instance)
               /\ occupied_blocks' =
                     insert_position(occupied_blocks, o.block.position)
               /\ last_block' = Some(o.block)
               /\ trace' = Append(trace, [op |-> op, kind |-> o.kind,
                                          block |-> o.block,
                                          instance |-> r.instance,
                                          prev |-> last_block])
               /\ UNCHANGED status
          ELSE /\ status' = IF o.tag = "Diverge" THEN "diverged"
                            ELSE IF o.tag = "Panic" THEN o.msg ELSE r.msg
               /\ UNCHANGED <<i_pipe_instances, l_pipe_instances,
                              occupied_blocks, last_block, trace>>

\* World::add_pipe
add_pipe ==
    /\ status = "running"
    /\ \E stop_draw \in Draws :
         LET outs == IF stop_draw < stop_probability \/ last_block = None
                     THEN random_block("FreshStart")
                     ELSE next_block
         IN \E o \in outs : Place("add_pipe", o, stop_draw)

\* The arguments of add_debug_pipe the model explores.
DebugPositions == { <<0, 0, 0>>, <<1, 1, 1>> }
DebugColors == {0}

\* The grid of the fixture
DebugWorld == <<2, 2, 2>>

\* World::add_debug_pipe
add_debug_pipe(pipe_type, position, direction, color) ==
    /\ status = "running"
    /\ LET block == [pipe_type |-> pipe_type, direction |-> direction,
                     position |-> position, color |-> color]
       IN Place("add_debug_pipe", Ok(block, "Debug"), 0)

\* World::new, with the grid and the stop probability drawn from small sets
new ==
    /\ \E w \in Worlds : /\ max_x_block = w[1]
                         /\ max_y_block = w[2]
                         /\ max_z_block = w[3]
    /\ turn_probability = TURN_PROBABILITY
    /\ stop_probability \in StopProbabilities
    /\ i_pipe_instances = <<>>
    /\ l_pipe_instances = <<>>
    /\ occupied_blocks = {}
    /\ last_block = None

Init ==
    /\ new
    /\ status = "running"
    /\ calls = 0
    /\ trace = <<>>
    /\ last_call = [op |-> "none"]

\* The host of lib.rs: add_pipe only, on a fresh World
Next == calls < MaxCalls /\ add_pipe

Spec == Init /\ [][Next]_vars

\* A scripted fixture: add_debug_pipe interleaved with add_pipe
DebugCalls == Cardinality({ i \in 1..Len(trace) : trace[i].op = "add_debug_pipe" })

NextDebug ==
    \/ calls < MaxDebugSteps /\ add_pipe
    \/ /\ calls < MaxDebugSteps
       /\ DebugCalls < MaxDebugCalls
       /\ \E pipe_type \in PipeType, position \in DebugPositions,
             direction \in ALL_DIRECTIONS, color \in DebugColors :
            add_debug_pipe(pipe_type, position, direction, color)

\* The fixture keeps the stop probability of World::new
InitDebug ==
    /\ Init
    /\ stop_probability = STOP_PROBABILITY
    /\ max_x_block = DebugWorld[1]
    /\ max_y_block = DebugWorld[2]
    /\ max_z_block = DebugWorld[3]

SpecDebug == InitDebug /\ [][NextDebug]_vars

--------------------------------------------------------------------------
(* Vocabulary of the properties *)

\* Number of instances emitted so far, over both streams
Streams == Len(i_pipe_instances) + Len(l_pipe_instances)

\* The positions placed before the i-th placed segment
OccBefore(i) == { trace[j].block.position : j \in 1..(i - 1) }

RunKinds == {"Continue", "Turn"}
FreshKinds == {"FreshStart", "BlockedRestart"}

\* The segment that began the run the i-th placed segment belongs to
RunStart(i) ==
    CHOOSE j \in 1..i :
        /\ trace[j].kind \notin RunKinds
        /\ \A k \in (j + 1)..i : trace[k].kind \in RunKinds

\* The instances of the placed segments of pipe type t, in placement order
IsOfType(e, t) == e.block.pipe_type = t
StreamOf(t) ==
    LET sel == SelectSeq(trace, LAMBDA e : IsOfType(e, t))
    IN [n \in 1..Len(sel) |-> sel[n].instance]

AxisOf(d) ==
    CASE d \in {"X", "_X"} -> "x"
      [] d \in {"Y", "_Y"} -> "y"
      [] d \in {"Z", "_Z"} -> "z"

\* The candidate of the specification: the position of b moved one unit
\* along the direction of b, in the integers
SignedCandidate(b) ==
    LET p == b.position
    IN CASE b.direction = "X" -> <<p[1] + 1, p[2], p[3]>>
         [] b.direction = "Y" -> <<p[1], p[2] + 1, p[3]>>
         [] b.direction = "Z" -> <<p[1], p[2], p[3] + 1>>
         [] b.direction = "_X" -> <<p[1] - 1, p[2], p[3]>>
         [] b.direction = "_Y" -> <<p[1], p[2] - 1, p[3]>>
         [] b.direction = "_Z" -> <<p[1], p[2], p[3] - 1>>

\* In [0, max_x) x [0, max_y) x [0, max_z)
InBounds(p) ==
    /\ 0 <= p[1] /\ p[1] < max_x_block
    /\ 0 <= p[2] /\ p[2] < max_y_block
    /\ 0 <= p[3] /\ p[3] < max_z_block

--------------------------------------------------------------------------
(* Properties *)

\* C1 - No collision: after any N completed add_pipe steps on a fresh World
\* the occupancy set has exactly N members, the N placed positions being
\* pairwise distinct.
C1_NoCollision ==
    /\ Streams = Len(trace)
    /\ Cardinality(occupied_blocks) = Streams
    /\ \A i, j \in 1..Len(trace) :
         i # j => trace[i].block.position # trace[j].block.position

\* A run of four placed segments in which a blocked continuation restarted
C1_Witness ==
    /\ Streams >= 4
    /\ \E i \in 1..Len(trace) : trace[i].kind = "BlockedRestart"

\* C2 - Bounds: every occupied position lies in
\* [0, max_x) x [0, max_y) x [0, max_z).
C2_Bounds == \A p \in occupied_blocks : InBounds(p)

\* C3 - Every call of add_pipe places exactly one segment: the streams grow
\* by one instance in total, one position joins the occupancy set and
\* last_block is the segment placed there.
C3_OneSegmentPerCall ==
    [][calls' = calls + 1 =>
          /\ Streams' = Streams + 1
          /\ Cardinality(occupied_blocks') = Cardinality(occupied_blocks) + 1
          /\ last_block'.tag = "Some"
          /\ occupied_blocks' = occupied_blocks \cup {last_block'.value.position}
      ]_vars

\* C4 - Saturation: a step that needs a fresh-start position when cells
\* are occupied and no cell of the spawn region is left unoccupied ends by
\* signalling GridSaturated, and no step resamples for ever.
C4_Saturation ==
    /\ status # "diverged"
    /\ (/\ last_call.op = "add_pipe"
        /\ last_call.kind \in FreshKinds
        /\ last_call.occupied # {}
        /\ SpawnRegion \subseteq last_call.occupied)
         => status = "GridSaturated"

\* C5 - Color continuity: every Continue or Turn segment, and the instance
\* emitted for it, has the color of the fresh-start segment that began its
\* run; the streams hold exactly the emitted instances.
C5_ColorContinuity ==
    /\ i_pipe_instances = StreamOf("I")
    /\ l_pipe_instances = StreamOf("L")
    /\ \A i \in 1..Len(trace) :
         trace[i].kind \in RunKinds =>
            /\ trace[RunStart(i)].kind \in FreshKinds
            /\ trace[i].block.color = trace[RunStart(i)].block.color
            /\ trace[i].instance.color = trace[RunStart(i)].block.color

\* A second run, of another color than the first, with a Turn and a Continue
C5_Witness ==
    \E i \in 2..(Len(trace) - 1) :
        /\ trace[i].kind = "Turn"
        /\ trace[i + 1].kind = "Continue"
        /\ RunStart(i) > 1
        /\ trace[RunStart(i)].block.color # trace[1].block.color

\* C6 - Perpendicularity: the direction of every Turn step (an Elbow) lies
\* on another axis than the direction of the segment placed before it.
C6_TurnPerpendicular ==
    /\ \A i \in 1..Len(trace) :
         trace[i].kind = "Turn" =>
            /\ i > 1
            /\ trace[i].block.pipe_type = "L"
            /\ trace[i].prev = Some(trace[i - 1].block)
            /\ AxisOf(trace[i].block.direction)
                  # AxisOf(trace[i - 1].block.direction)
    /\ (last_call.op = "add_pipe" /\ last_call.kind = "Turn") =>
          AxisOf(last_call.block.value.direction)
             # AxisOf(last_call.prev.value.direction)

\* Two Turn steps in a row, both placed
C6_Witness ==
    \E i \in 2..(Len(trace) - 1) :
        trace[i].kind = "Turn" /\ trace[i + 1].kind = "Turn"

\* C7 - Direction continuity: every Continue step places a Straight segment
\* whose direction is the direction of the segment placed before it.
C7_ContinueKeepsDirection ==
    \A i \in 1..Len(trace) :
        trace[i].kind = "Continue" =>
           /\ i > 1
           /\ trace[i].block.pipe_type = "I"
           /\ trace[i].prev = Some(trace[i - 1].block)
           /\ trace[i].block.direction = trace[i - 1].block.direction

\* A Continue step right after a Turn: it keeps the elbow's new direction
C7_Witness ==
    \E i \in 3..Len(trace) :
        /\ trace[i].kind = "Continue"
        /\ trace[i - 1].kind = "Turn"
        /\ trace[i - 1].block.direction # trace[i - 2].block.direction

\* C8 - BlockedRestart: whenever the candidate position is out of bounds or
\* occupied, the step places a fresh-start segment: Straight, at a cell of
\* the spawn region that was not occupied, with a color of the palette.
C8_BlockedRestart ==
    (/\ last_call.op = "add_pipe"
     /\ last_call.kind # "FreshStart"
     /\ \/ ~InBounds(SignedCandidate(last_call.prev.value))
        \/ SignedCandidate(last_call.prev.value) \in last_call.occupied)
      => /\ last_call.kind = "BlockedRestart"
         /\ last_call.placed
         /\ last_call.block.value.pipe_type = "I"
         /\ last_call.block.value.position \in SpawnRegion \ last_call.occupied
         /\ last_call.block.value.color \in COLOR

\* C9 - FreshStart: a step with no previous segment, or whose stop draw is
\* below stop_probability, is a fresh start; a fresh-start segment is
\* Straight and at a position that was not occupied; the first segment is
\* Straight and the Elbow stream is empty after the first step.
C9_FreshStart ==
    /\ (/\ last_call.op = "add_pipe"
        /\ \/ last_call.prev = None
           \/ last_call.stop_draw < stop_probability)
         => /\ last_call.kind = "FreshStart"
            /\ last_call.placed =>
                  /\ last_block.value.pipe_type = "I"
                  /\ last_block.value.position \notin last_call.occupied
    /\ \A i \in 1..Len(trace) :
         trace[i].kind = "FreshStart" =>
            /\ trace[i].block.pipe_type = "I"
            /\ trace[i].block.position \notin OccBefore(i)
    /\ Len(trace) >= 1 => trace[1].kind = "FreshStart"
    /\ Len(trace) = 1 => l_pipe_instances = <<>> /\ Len(i_pipe_instances) = 1

\* A fresh start by the stop draw, placed while a run was under way
C9_Witness ==
    /\ last_call.op = "add_pipe"
    /\ last_call.prev # None
    /\ last_call.stop_draw < stop_probability
    /\ last_call.placed
    /\ Len(trace) >= 3

\* C10 - Occupancy is checked before every placement: no call of add_pipe
\* or add_debug_pipe emits an instance for a position already occupied.
C10_OccupancyChecked ==
    [][Streams' > Streams =>
          last_block'.value.position \notin occupied_blocks]_vars

--------------------------------------------------------------------------
(* Vocabulary of the orientation properties *)

\* n as a float, for the integers below 2^24
FloatOf(n) == <<n, 0>>
FloatsOf(p) == <<FloatOf(p[1]), FloatOf(p[2]), FloatOf(p[3])>>

\* The rotation by 0 degrees
IdentityRotation == <<NOne, NZero, NZero, NZero>>

NNeg(p) == <<0 - p[1], 0 - p[2]>>
Conjugate(q) == <<q[1], NNeg(q[2]), NNeg(q[3]), NNeg(q[4])>>
Negated(q) == <<NNeg(q[1]), NNeg(q[2]), NNeg(q[3]), NNeg(q[4])>>

\* q and r turn every vector alike
SameRotation(q, r) == q = r \/ q = Negated(r)

\* The unit vector of an axis, and the vector v turned by the quaternion q
UnitVector(axis) ==
    CASE axis = "x" -> <<NOne, NZero, NZero>>
      [] axis = "y" -> <<NZero, NOne, NZero>>
      [] axis = "z" -> <<NZero, NZero, NOne>>
Rotated(q, v) ==
    LET r == quaternion_mul(quaternion_mul(q, <<NZero, v[1], v[2], v[3]>>),
                            Conjugate(q))
    IN <<r[2], r[3], r[4]>>
OnAxis(v, axis) ==
    \/ v = UnitVector(axis)
    \/ v = <<NNeg(UnitVector(axis)[1]), NNeg(UnitVector(axis)[2]),
             NNeg(UnitVector(axis)[3])>>

\* The angles of the elbow tables, and the rotations by one of them about a
\* coordinate axis
Turns == {0, 90, 180, -90}
BaseRotations == { from_axis_angle(a, d) : a \in {"x", "y", "z"}, d \in Turns }

\* Where each rotation about a coordinate axis takes the canonical Y axis
YImage == [q \in BaseRotations |-> Rotated(q, UnitVector("y"))]

--------------------------------------------------------------------------
(* Properties of the orientation resolver and of the bookkeeping *)

\* C11 - The elbow resolver fails loudly: a call that resolves an Elbow
\* whose direction is equal or opposite to the direction of the previous
\* segment aborts with "Invalid direction", before any instance is appended
\* and before any cell is marked occupied.
C11_ElbowFailsLoudly ==
    [][(/\ calls' = calls + 1
        /\ last_call'.block # None
        /\ last_call'.block.value.pipe_type = "L"
        /\ last_block # None
        /\ AxisOf(last_call'.block.value.direction)
              = AxisOf(last_block.value.direction))
         => /\ status' = "Invalid direction"
            /\ UNCHANGED <<i_pipe_instances, l_pipe_instances,
                           occupied_blocks, last_block>>
      ]_vars

\* An Elbow asked for along the axis of the segment before it
C11_Witness ==
    /\ status = "Invalid direction"
    /\ last_call.op = "add_debug_pipe"
    /\ last_call.prev # None
    /\ Streams >= 1

\* C12 - Debug placement: on a fresh World, add_debug_pipe(Straight, p, d,
\* c) leaves one instance in the Straight stream, at p as floats, turned so
\* that the canonical Y axis lies on the axis of d (not turned at all for
\* +Y and -Y), of color c; the Elbow stream is empty, the occupancy set
\* holds p and last_block is the segment.
C12_DebugPlacement ==
    (/\ calls = 1
     /\ last_call.op = "add_debug_pipe"
     /\ last_call.block.value.pipe_type = "I")
      => LET b == last_call.block.value
         IN /\ Len(i_pipe_instances) = 1
            /\ i_pipe_instances[1].position = FloatsOf(b.position)
            /\ i_pipe_instances[1].color = b.color
            /\ i_pipe_instances[1].rotation \in BaseRotations
            /\ OnAxis(YImage[i_pipe_instances[1].rotation], AxisOf(b.direction))
            /\ AxisOf(b.direction) = "y" =>
                  i_pipe_instances[1].rotation = IdentityRotation
            /\ l_pipe_instances = <<>>
            /\ occupied_blocks = {b.position}
            /\ last_block = Some(b)

\* The fixture of the specification: Straight at (1,1,1), +Y, a color that
\* is not of the palette
C12_Witness ==
    /\ calls = 1
    /\ last_call.op = "add_debug_pipe"
    /\ last_block = Some([pipe_type |-> "I", direction |-> "Y",
                          position |-> <<1, 1, 1>>, color |-> 0])
    /\ Len(i_pipe_instances) = 1

IsPrefix(s, t) == Len(s) <= Len(t) /\ SubSeq(t, 1, Len(s)) = s

\* The step is a call that returned
Returned == calls' = calls + 1 /\ status' = "running"

\* t is s with one instance appended, the instance of the block b
AppendsFor(s, t, b) ==
    /\ Len(t) = Len(s) + 1
    /\ SubSeq(t, 1, Len(s)) = s
    /\ t[Len(t)].position = FloatsOf(b.position)
    /\ t[Len(t)].color = b.color

\* C14 - Stream routing: a placed Straight segment appends one instance to
\* the Straight stream and leaves the Elbow stream as it was; a placed
\* Elbow segment appends one instance to the Elbow stream and leaves the
\* Straight stream as it was (add_pipe and add_debug_pipe).
C14_StreamRouting ==
    [][Returned =>
          IF last_block'.value.pipe_type = "I"
          THEN /\ AppendsFor(i_pipe_instances, i_pipe_instances',
                             last_block'.value)
               /\ l_pipe_instances' = l_pipe_instances
          ELSE /\ AppendsFor(l_pipe_instances, l_pipe_instances',
                             last_block'.value)
               /\ i_pipe_instances' = i_pipe_instances
      ]_vars

\* An Elbow placed by add_debug_pipe after a Straight segment
C14_Witness ==
    /\ last_call.op = "add_debug_pipe"
    /\ last_call.placed
    /\ last_block.value.pipe_type = "L"
    /\ Len(i_pipe_instances) >= 1
    /\ Len(l_pipe_instances) >= 1

\* C15 - The streams are append-only: each stream before a call is a prefix
\* of the same stream after it.
C15_AppendOnly ==
    [][/\ IsPrefix(i_pipe_instances, i_pipe_instances')
       /\ IsPrefix(l_pipe_instances, l_pipe_instances')]_vars

\* A stream that grew twice, next to the other stream
C15_Witness ==
    /\ Len(i_pipe_instances) >= 2
    /\ Len(l_pipe_instances) >= 1

\* C16 - The occupancy set only grows: no call removes a position, a call
\* that returns adds the position it placed, and adding a position that is
\* occupied leaves the set as it was.
C16_OccupancyGrows ==
    [][/\ occupied_blocks \subseteq occupied_blocks'
       /\ Returned =>
             /\ occupied_blocks'
                   = occupied_blocks \cup {last_block'.value.position}
             /\ last_block'.value.position \in occupied_blocks
                   => occupied_blocks' = occupied_blocks
      ]_vars

\* A segment placed on an occupied position, among other placements
C16_Witness ==
    /\ Streams = 3
    /\ Cardinality(occupied_blocks) = 2

\* The placed segments of pipe type t
Entries(t) == { i \in 1..Len(trace) : trace[i].block.pipe_type = t }

\* The directions perpendicular to d
Perpendicular(d) == { e \in ALL_DIRECTIONS : AxisOf(e) # AxisOf(d) }

\* The rotations the resolver returns for the pair (in, out)
ElbowRotations(out, in) == { Compose(f) : f \in LRotation(out, in) }

\* The angles deg for which q is the turn by deg about axis after base
TurnsOf(q, axis, base) ==
    { deg \in Turns : q = quaternion_mul(from_axis_angle(axis, deg), base) }

\* For the outgoing direction out: the 4 rotations are turns about the axis
\* of out after one base rotation, by 4 different angles, and differ
DistinctTurns(out) ==
    /\ \E base \in BaseRotations :
         \A in \in Perpendicular(out) :
            /\ ElbowRotations(out, in) # {}
            /\ \A q \in ElbowRotations(out, in) :
                  TurnsOf(q, AxisOf(out), base) # {}
            /\ \A in2 \in Perpendicular(out) \ {in} :
                 \A q \in ElbowRotations(out, in),
                    q2 \in ElbowRotations(out, in2) :
                      /\ TurnsOf(q, AxisOf(out), base)
                            # TurnsOf(q2, AxisOf(out), base)
                      /\ ~SameRotation(q, q2)
ElbowTable == [out \in ALL_DIRECTIONS |-> DistinctTurns(out)]

\* C17 - Elbow rotation table: for each outgoing direction and each of its
\* 4 perpendicular incoming directions the elbow resolver returns a
\* rotation; the rotation is a turn by 0, 90, 180 or -90 degrees about the
\* axis of the outgoing direction composed with a base rotation that is the
\* same for the 4 incoming directions, and the 4 angles, and rotations,
\* differ from one another.
C17_ElbowRotationTable ==
    /\ (/\ last_call.op # "none"
        /\ last_call.block # None
        /\ last_call.block.value.pipe_type = "L"
        /\ last_call.prev # None
        /\ last_call.prev.value.direction
              \in Perpendicular(last_call.block.value.direction))
         => last_call.placed
    /\ \A i \in Entries("L") :
         /\ ElbowRotations(trace[i].block.direction,
                           trace[i].prev.value.direction)
               = {trace[i].instance.rotation}
         /\ ElbowTable[trace[i].block.direction]

\* An Elbow towards -Z placed after a segment heading +Y
C17_Witness ==
    \E i \in Entries("L") :
        /\ trace[i].block.direction = "_Z"
        /\ trace[i].prev.value.direction = "Y"

\* The rotations of the 6 directions of a Straight segment
StraightRotations == { Compose(IRotation(d)) : d \in ALL_DIRECTIONS }

\* C18 - Straight rotation table: the rotation of a Straight instance
\* depends only on the axis of the direction of its segment: it lays the
\* canonical Y axis on that axis, is the same for +d and -d whatever the
\* previous segment, differs between axes (3 rotations for 6 directions)
\* and is the rotation by 0 degrees for the Y axis.
C18_StraightRotationTable ==
    /\ Cardinality(StraightRotations) = 3
    /\ \A i \in Entries("I") :
         LET q == trace[i].instance.rotation
             axis == AxisOf(trace[i].block.direction)
         IN /\ q \in StraightRotations
            /\ q \in BaseRotations
            /\ OnAxis(YImage[q], axis)
            /\ axis = "y" => q = IdentityRotation
            /\ \A j \in Entries("I") :
                 (AxisOf(trace[j].block.direction) = axis)
                    <=> SameRotation(trace[j].instance.rotation, q)

\* Straight segments heading +Z and -Z, placed after different segments
C18_Witness ==
    \E i, j \in Entries("I") :
        /\ trace[i].block.direction = "Z"
        /\ trace[j].block.direction = "_Z"
        /\ trace[i].prev # trace[j].prev

\* C19 - Elbow incoming direction: the rotation of the Elbow instance of a
\* Turn step is the rotation of the pair (direction of the segment placed
\* by the step before, direction of the new segment).
C19_ElbowIncomingDirection ==
    /\ l_pipe_instances = StreamOf("L")
    /\ \A i \in 1..Len(trace) :
         trace[i].kind = "Turn" =>
            /\ i > 1
            /\ trace[i].instance.rotation
                  \in { Compose(f) :
                          f \in LRotation(trace[i].block.direction,
                                          trace[i - 1].block.direction) }
    /\ (last_call.op = "add_pipe" /\ last_call.kind = "Turn"
           /\ last_call.placed)
         => l_pipe_instances[Len(l_pipe_instances)].rotation
               \in { Compose(f) :
                       f \in LRotation(last_block.value.direction,
                                       last_call.prev.value.direction) }

\* A Turn whose rotation is not the one the segment two steps back gives
C19_Witness ==
    \E i \in 3..Len(trace) :
        /\ trace[i].kind = "Turn"
        /\ trace[i].instance.rotation
              \notin { Compose(f) :
                         f \in LRotation(trace[i].block.direction,
                                         trace[i - 2].block.direction) }

\* C20 - Orientation determinism: two instances resolved for the same pair
\* of incoming and outgoing direction (for the same own direction, when
\* Straight) have the same rotation, whatever the positions, the colors,
\* the occupancy set and the streams at the time.
C20_OrientationDeterminism ==
    /\ \A i, j \in Entries("L") :
         (/\ trace[i].block.direction = trace[j].block.direction
          /\ trace[i].prev.value.direction = trace[j].prev.value.direction)
           => trace[i].instance.rotation = trace[j].instance.rotation
    /\ \A i, j \in Entries("I") :
         trace[i].block.direction = trace[j].block.direction
            => trace[i].instance.rotation = trace[j].instance.rotation

\* Two Elbows of the same pair of directions, at different positions, of
\* different colors
C20_Witness ==
    \E i, j \in Entries("L") :
        /\ trace[i].block.direction = trace[j].block.direction
        /\ trace[i].prev.value.direction = trace[j].prev.value.direction
        /\ trace[i].block.position # trace[j].block.position
        /\ trace[i].block.color # trace[j].block.color

--------------------------------------------------------------------------
(* Properties of the growth step at the edges of the grid *)

\* The segment b heads in a negative direction from coordinate 0
AtLowerBound(b) ==
    \/ b.direction = "_X" /\ b.position[1] = 0
    \/ b.direction = "_Y" /\ b.position[2] = 0
    \/ b.direction = "_Z" /\ b.position[3] = 0

\* C21 - Lower-bound handling: a growth step whose previous segment is at
\* coordinate 0 on the axis of its negative direction, with a free cell
\* left in the spawn region, completes as a BlockedRestart that places one
\* fresh-start segment; the subtraction does not abort the step.
C21_LowerBound ==
    (/\ last_call.op = "add_pipe"
     /\ last_call.prev # None
     /\ ~(last_call.stop_draw < stop_probability)
     /\ AtLowerBound(last_call.prev.value)
     /\ SpawnRegion \ last_call.occupied # {})
      => /\ last_call.kind = "BlockedRestart"
         /\ last_call.placed
         /\ status = "running"
         /\ last_block.value.position \in SpawnRegion \ last_call.occupied

\* C22 - Adjacency: every Continue or Turn step places its segment at the
\* position of the segment placed before it moved one unit along that
\* segment's direction, the other two coordinates unchanged; a Turn places
\* at the same cell a Continue would.
C22_Adjacency ==
    \A i \in 1..Len(trace) :
        trace[i].kind \in RunKinds =>
           /\ i > 1
           /\ trace[i].block.position = SignedCandidate(trace[i - 1].block)
           /\ trace[i].instance.position
                 = FloatsOf(SignedCandidate(trace[i - 1].block))

\* A Turn into a negative direction followed by a Continue
C22_Witness ==
    \E i \in 2..(Len(trace) - 1) :
        /\ trace[i].kind = "Turn"
        /\ trace[i].block.direction \in {"_X", "_Y", "_Z"}
        /\ trace[i + 1].kind = "Continue"

ResolverAborts ==
    {"Invalid direction", "called Option::unwrap() on a None value"}

\* C24 - With add_pipe only, the failure branches of the elbow resolver are
\* unreachable: every Elbow is resolved with a previous segment present and
\* with directions on different axes, and no call ends in "Invalid
\* direction" or on the missing last_block.
C24_ResolverNeverFails ==
    /\ status \notin ResolverAborts
    /\ (/\ last_call.op = "add_pipe"
        /\ last_call.block # None
        /\ last_call.block.value.pipe_type = "L")
         => /\ last_call.prev # None
            /\ AxisOf(last_call.prev.value.direction)
                  # AxisOf(last_call.block.value.direction)
            /\ last_call.placed

\* An Elbow resolved right after a blocked restart
C24_Witness ==
    \E i \in 2..Len(trace) :
        /\ trace[i].kind = "Turn"
        /\ trace[i - 1].kind = "BlockedRestart"

\* In [0, max_x/2) x [0, max_y/2) x [0, max_z/2)
InHalfRegion(p) ==
    /\ 0 <= p[1] /\ p[1] < max_x_block \div 2
    /\ 0 <= p[2] /\ p[2] < max_y_block \div 2
    /\ 0 <= p[3] /\ p[3] < max_z_block \div 2

\* C25 - Spawn region: every fresh-start or blocked-restart position has
\* each coordinate in [0, floor(max/2)) of its axis; a segment outside that
\* region was placed by a Continue or Turn step, whose candidate is held
\* against the maximum of the whole axis.
C25_SpawnRegion ==
    \A i \in 1..Len(trace) :
        /\ trace[i].kind \in FreshKinds => InHalfRegion(trace[i].block.position)
        /\ ~InHalfRegion(trace[i].block.position) =>
              /\ trace[i].kind \in RunKinds
              /\ 0 <= trace[i].block.position[1]
              /\ trace[i].block.position[1] <= max_x_block
              /\ 0 <= trace[i].block.position[2]
              /\ trace[i].block.position[2] <= max_y_block
              /\ 0 <= trace[i].block.position[3]
              /\ trace[i].block.position[3] <= max_z_block

\* A run that left the spawn region and a restart that came back into it
C25_Witness ==
    \E i \in 2..(Len(trace) - 1) :
        /\ ~InHalfRegion(trace[i].block.position)
        /\ trace[i + 1].kind \in FreshKinds

\* C26 - add_debug_pipe with an Elbow needs a previous segment: on a World
\* without last_block it aborts and leaves the streams, the occupancy set
\* and last_block as they were; with a last_block whose direction is on
\* another axis than the given one it places the Elbow, resolved with the
\* direction of last_block as incoming.
C26_DebugElbow ==
    [][(/\ calls' = calls + 1
        /\ last_call'.op = "add_debug_pipe"
        /\ last_call'.block.value.pipe_type = "L")
        => LET b == last_call'.block.value
           IN /\ last_block = None =>
                    /\ status' = "called Option::unwrap() on a None value"
                    /\ UNCHANGED <<i_pipe_instances, l_pipe_instances,
                                   occupied_blocks, last_block>>
              /\ (/\ last_block # None
                  /\ AxisOf(last_block.value.direction) # AxisOf(b.direction))
                   => /\ status' = "running"
                      /\ UNCHANGED i_pipe_instances
                      /\ Len(l_pipe_instances') = Len(l_pipe_instances) + 1
                      /\ IsPrefix(l_pipe_instances, l_pipe_instances')
                      /\ LET e == l_pipe_instances'[Len(l_pipe_instances')]
                         IN /\ e.position = FloatsOf(b.position)
                            /\ e.color = b.color
                            /\ ElbowRotations(b.direction,
                                              last_block.value.direction)
                                  = {e.rotation}
                      /\ occupied_blocks' = occupied_blocks \cup {b.position}
                      /\ last_block' = Some(b)
      ]_vars

\* The abort of add_debug_pipe with an Elbow on a fresh World
C26_Witness ==
    /\ status = "called Option::unwrap() on a None value"
    /\ last_call.op = "add_debug_pipe"
    /\ last_call.prev = None
    /\ Streams = 0
    /\ occupied_blocks = {}

\* C27 - Whenever last_block is present its position is in the occupancy
\* set and it is the segment of the instance appended last: the last
\* instance of the stream of its pipe type has its position and its color.
C27_LastBlockPlaced ==
    last_block # None =>
       LET b == last_block.value
           stream == IF b.pipe_type = "I" THEN i_pipe_instances
                     ELSE l_pipe_instances
       IN /\ b.position \in occupied_blocks
          /\ Len(stream) >= 1
          /\ stream[Len(stream)].position = FloatsOf(b.position)
          /\ stream[Len(stream)].color = b.color
          /\ Len(trace) >= 1
          /\ trace[Len(trace)].block = b
          /\ trace[Len(trace)].instance = stream[Len(stream)]

\* An Elbow placed by add_debug_pipe on a cell that was occupied, after
\* which a call of add_pipe was aborted
C27_Witness ==
    /\ status # "running"
    /\ last_call.op = "add_pipe"
    /\ last_block # None
    /\ last_block.value.pipe_type = "L"
    /\ trace[Len(trace)].op = "add_debug_pipe"
    /\ last_block.value.position \in OccBefore(Len(trace))

====
